---- MODULE Spec2Model ----
(***************************************************************************)
(* go-del-socials: the command-line driver of cmd/go-del-socials and the   *)
(* provider clients of pkg/reddit and pkg/twitter.                         *)
(*                                                                         *)
(* One run loads the configuration, asks for the platform, builds a client *)
(* for it (NewClient), asks for the content type and the cutoff date, and  *)
(* makes one DeleteContent pass.  The program is sequential; its position  *)
(* is pc, and it yields to the environment at every call of the provider   *)
(* (token request, user lookup, listing, delete) and at every sleep.  The  *)
(* provider is the environment: it chooses the answer of every call.       *)
(*                                                                         *)
(* The elements of a page are drawn when the range loop reaches them: the  *)
(* code reads each element once, in order, and never looks ahead.          *)
(***************************************************************************)
EXTENDS Integers, Sequences, FiniteSets, TLC

(***************************************************************************)
(* Bounds of the model.                                                    *)
(***************************************************************************)
\* clock ticks per second: creation times carry a sub-second part
SubSec == 2
\* pages a provider serves for one listing, the closing empty page included
MaxPages == 2
\* elements on one page
MaxPageLen == 2
\* consecutive 429 answers the provider gives to one listing request
MaxFetch429 == 1
\* characters of a line typed at a choice prompt
MaxLineLen == 2

(***************************************************************************)
(* Program constants.                                                      *)
(***************************************************************************)
\* twitter.go:155  maxRetries := 3
maxRetries == 3
\* twitter.go:154  baseDelay := 5 * time.Second
baseDelay == 5
\* reddit.go:152, 196  time.Sleep(2 * time.Second)
redditDelay == 2
\* twitter.go:129  waitTime := 15 * time.Minute, in seconds
waitTime == 900
\* the empty cursor: resp.After == "" / nextToken == ""
NoCursor == 0

(***************************************************************************)
(* Time.  A time.Time is a number of ticks; a cutoff date comes from       *)
(* promptDate and is a midnight, hence a whole number of seconds.          *)
(***************************************************************************)
\* t.Unix(): seconds since the epoch, the sub-second part dropped
Unix(t) == t \div SubSec
\* time.Unix(sec, 0)
TimeUnix(sec) == sec * SubSec

\* creation times: every tick of the second before the cutoff and of the
\* second that starts at it
Times == 0 .. (TimeUnix(2) - 1)
CutoffDates == {TimeUnix(1)}

BeforeOrEqual(t, u) == t <= u
\* t.Before(u)
Before(t, u) == t < u

\* postTime := time.Unix(post.Created.Unix(), 0); postTime.Before(cutoffDate)
UnixCeil(t) == (t + SubSec - 1) \div SubSec
RedditItemTimeCeil(it) == TimeUnix(UnixCeil(it.Created))
RedditItemTime(it) == TimeUnix(Unix(it.Created))

(***************************************************************************)
(* What the providers serve.                                               *)
(***************************************************************************)
IDs == {"", "id"}
\* the referenced_tweets of a tweet: the types of its references
RefLists == {<<>>, <<"quoted">>, <<"replied_to">>, <<"quoted", "replied_to">>}

\* reddit.Post / reddit.Comment: ID and Created are all the pass reads
RedditItems == [ID : {"id"}, Created : Times, ReferencedTweets : {<<>>}]
\* a tweet of ListTweetsOutput.Data: ID, CreatedAt, ReferencedTweets
Tweets == [ID : IDs, Created : Times, ReferencedTweets : RefLists]
NoItem == [ID |-> "none", Created |-> 0, ReferencedTweets |-> <<>>]

RedditSelectors == {"all", "posts", "comments"}
TwitterSelectors == {"all", "tweets", "replies"}

\* the answers of the delete endpoint
DeleteAnswers == {"ok", "429", "error"}

VARIABLES
    platform,        \* "reddit" or "twitter": the operator's choice
    pc,              \* position of the program
    err,             \* the error NewClient or DeleteContent returned, "" for nil
    tokenResp,       \* reddit: the answer of the token endpoint
    accessToken,     \* reddit: Client.accessToken
    lookup,          \* twitter: the answer of the username lookup
    contentType,     \* DeleteContent's contentType
    cutoffDate,      \* DeleteContent's cutoffDate
    listing,         \* the listing the pass is paging through
    After,           \* postsOpts.After / commentsOpts.After / params.PaginationToken
    n,               \* len(posts) / len(comments) / len(tweets.Data) of the page
    next,            \* resp.After / tweets.Meta.NextToken of the page
    i,               \* elements of the page the range loop is done with
    item,            \* the element the loop is at (or was last at)
    calls,           \* delete calls issued for item
    deleteErr,       \* the answer of the last delete call for item
    retry,           \* twitter: the retry counter of the delete loop
    first,           \* postsDeleted / tweetsDeleted
    second,          \* commentsDeleted / repliesDeleted
    ret,             \* what DeleteContent returned: <<first, second>>
    served,          \* provider: pages served for this listing
    ended,           \* provider: the last page of this listing has been served
    removed,         \* provider: <<posts or tweets, comments or replies>> it deleted
    fetch429,        \* provider: consecutive 429 answers to the current request
    fetchAnswer,     \* provider: its answer to the last listing request
    skipped,         \* elements of the page the loop left with deleteErr != nil
    exit,            \* the exit status of the process, -1 while it runs
    fatal,           \* the stage log.Fatalf reported, "" for none
    summary,         \* the summary of the pass has been printed
    configReads,     \* os.ReadFile("config.json") calls made so far
    built,           \* the read whose credentials the client was built from
    prompt,          \* prompt functions: the arguments of the call
    stdin,           \* prompt functions: the line the operator types
    prompted         \* prompt functions: what the call returned

vars == <<platform, pc, err, tokenResp, accessToken, lookup, contentType,
          cutoffDate, listing, After, n, next, i, item, calls, deleteErr, retry,
          first, second, ret, served, ended, removed, fetch429, fetchAnswer,
          skipped, exit, fatal, summary, configReads, built, prompt, stdin,
          prompted>>

passVars == <<contentType, cutoffDate, listing, After, n, next, i, item, calls,
              deleteErr, retry, first, second, ret, served, ended, removed,
              fetch429, fetchAnswer, skipped>>

\* what a pass leaves alone
authVars == <<platform, tokenResp, accessToken, lookup, configReads, built,
              prompt, stdin, prompted>>

\* what a run changes when it ends
runVars == <<exit, fatal, summary>>

NoResp == [status |-> 0, body |-> "none"]
NoRet == <<-1, -1>>

\* the values of the variables before main has done anything
Zero ==
    /\ platform = "none"
    /\ exit = -1
    /\ fatal = ""
    /\ summary = FALSE
    /\ configReads = 0
    /\ built = 0
    /\ err = ""
    /\ tokenResp = NoResp
    /\ accessToken = ""
    /\ lookup = "none"
    /\ contentType = "none"
    /\ cutoffDate = 0
    /\ listing = "none"
    /\ After = NoCursor
    /\ n = 0
    /\ next = NoCursor
    /\ i = 0
    /\ item = NoItem
    /\ calls = 0
    /\ deleteErr = "none"
    /\ retry = 0
    /\ first = 0
    /\ second = 0
    /\ ret = NoRet
    /\ served = 0
    /\ ended = FALSE
    /\ removed = <<0, 0>>
    /\ fetch429 = 0
    /\ fetchAnswer = "none"
    /\ skipped = 0

\* the line ReadString could not read (EOF)
ReadError == <<"EOF">>
NoPrompt == [options |-> <<>>, default |-> ""]
NoAnswer == [value |-> <<>>, err |-> "none"]

Init ==
    /\ Zero
    /\ pc = "loadConfig"
    /\ prompt = NoPrompt
    /\ stdin = <<>>
    /\ prompted = NoAnswer

(***************************************************************************)
(* cmd/go-del-socials: the prompt functions.  A line is a sequence of      *)
(* characters; a date is <<year, month, day>>, a midnight in UTC.          *)
(***************************************************************************)
Digits == {"0", "1", "2", "3", "4", "5", "6", "7", "8", "9"}
DigitVal(c) ==
    CASE c = "0" -> 0 [] c = "1" -> 1 [] c = "2" -> 2 [] c = "3" -> 3
      [] c = "4" -> 4 [] c = "5" -> 5 [] c = "6" -> 6 [] c = "7" -> 7
      [] c = "8" -> 8 [] c = "9" -> 9

RECURSIVE TrimLeft(_)
TrimLeft(s) == IF s # <<>> /\ Head(s) = " " THEN TrimLeft(Tail(s)) ELSE s
RECURSIVE TrimRight(_)
TrimRight(s) ==
    IF s # <<>> /\ s[Len(s)] = " " THEN TrimRight(SubSeq(s, 1, Len(s) - 1)) ELSE s
\* strings.TrimSpace(input)
TrimSpace(s) == TrimRight(TrimLeft(s))

\* the longest prefix of s made of digits
RECURSIVE DigitPrefix(_)
DigitPrefix(s) ==
    IF s # <<>> /\ Head(s) \in Digits
      THEN <<Head(s)>> \o DigitPrefix(Tail(s))
      ELSE <<>>
\* the number a string of digits denotes
RECURSIVE Atoi(_)
Atoi(d) ==
    IF d = <<>> THEN 0
    ELSE 10 * Atoi(SubSeq(d, 1, Len(d) - 1)) + DigitVal(d[Len(d)])

\* the verb %d of fmt.Sscanf: leading spaces are skipped, a sign is accepted,
\* the digits that follow are read, and what comes after them is left unread
ScanInt(s) ==
    LET t == TrimLeft(s)
        signed == t # <<>> /\ Head(t) \in {"+", "-"}
        u == IF signed THEN Tail(t) ELSE t
        d == DigitPrefix(u)
    IN  [ok |-> d # <<>>,
         value |-> IF signed /\ Head(t) = "-" THEN 0 - Atoi(d) ELSE Atoi(d),
         rest |-> SubSeq(u, Len(d) + 1, Len(u))]

\* promptChoice(prompt, options, defaultOption) on the line the reader gives
promptChoice(options, defaultOption, line) ==
    IF line = ReadError THEN [value |-> "", err |-> "EOF"]
    ELSE LET input == TrimSpace(line)
             choice == ScanInt(input)
         IN  IF input = <<>>
               THEN IF defaultOption # ""
                      THEN [value |-> defaultOption, err |-> ""]
                      ELSE [value |-> "", err |-> "a choice is required"]
             ELSE IF ~choice.ok \/ choice.value < 1 \/ choice.value > Len(options)
               THEN [value |-> "", err |-> "invalid choice"]
             ELSE [value |-> options[choice.value], err |-> ""]

\* strings.Split(s, "-")
RECURSIVE Split(_)
Split(s) ==
    IF \A k \in DOMAIN s : s[k] # "-"
      THEN <<s>>
      ELSE LET k == CHOOSE j \in DOMAIN s :
                      s[j] = "-" /\ \A h \in 1 .. (j - 1) : s[h] # "-"
           IN  <<SubSeq(s, 1, k - 1)>> \o Split(SubSeq(s, k + 1, Len(s)))

\* fmt.Sscanf(input, "%d-%d", &year, &month)
ScanYearMonth(input) ==
    LET y == ScanInt(input)
        m == ScanInt(Tail(y.rest))
    IN  IF ~y.ok \/ y.rest = <<>> \/ Head(y.rest) # "-"
          THEN [ok |-> FALSE, year |-> 0, month |-> 0]
          ELSE [ok |-> m.ok, year |-> y.value, month |-> m.value]

AllDigits(s) == s # <<>> /\ \A k \in DOMAIN s : s[k] \in Digits
IsLeap(y) == y % 4 = 0 /\ (y % 100 # 0 \/ y % 400 = 0)
DaysIn(y, m) ==
    CASE m \in {4, 6, 9, 11} -> 30
      [] m = 2 -> IF IsLeap(y) THEN 29 ELSE 28
      [] OTHER -> 31

\* time.Parse("2006-01-02", input) for an input of three segments: four
\* digits, two digits, two digits, and a day the month has
ParseDate(input) ==
    LET p == Split(input)
        y == Atoi(p[1])
        m == Atoi(p[2])
        d == Atoi(p[3])
    IN  IF /\ AllDigits(p[1]) /\ Len(p[1]) = 4
           /\ AllDigits(p[2]) /\ Len(p[2]) = 2
           /\ AllDigits(p[3]) /\ Len(p[3]) = 2
           /\ m \in 1 .. 12
           /\ d \in 1 .. DaysIn(y, m)
          THEN [ok |-> TRUE, date |-> <<y, m, d>>]
          ELSE [ok |-> FALSE, date |-> <<1, 1, 1>>]

\* time.Time{}
ZeroTime == <<1, 1, 1>>
\* time.Date(2020, 1, 1, 0, 0, 0, 0, time.UTC)
DefaultCutoff == <<2020, 1, 1>>

\* promptDate(prompt, defaultDate) on the line the reader gives
promptDate(line, defaultDate) ==
    IF line = ReadError THEN [value |-> ZeroTime, err |-> "EOF"]
    ELSE LET input == TrimSpace(line)
             parts == Len(Split(input))
             year == ScanInt(input)
             ym == ScanYearMonth(input)
             full == ParseDate(input)
         IN  IF input = <<>> THEN [value |-> defaultDate, err |-> ""]
             ELSE CASE parts = 1 ->
                         IF ~year.ok
                           THEN [value |-> ZeroTime, err |-> "invalid year format"]
                           ELSE [value |-> <<year.value, 1, 1>>, err |-> ""]
                    [] parts = 2 ->
                         IF ~ym.ok
                           THEN [value |-> ZeroTime,
                                 err |-> "invalid year-month format"]
                         ELSE IF ym.month < 1 \/ ym.month > 12
                           THEN [value |-> ZeroTime, err |-> "invalid month"]
                         ELSE [value |-> <<ym.year, ym.month, 1>>, err |-> ""]
                    [] parts = 3 ->
                         IF ~full.ok
                           THEN [value |-> ZeroTime, err |-> "invalid date format"]
                           ELSE [value |-> full.date, err |-> ""]
                    [] OTHER -> [value |-> ZeroTime, err |-> "invalid date format"]

(***************************************************************************)
(* The lines the operator types.                                           *)
(***************************************************************************)
\* at a choice prompt: every line of at most MaxLineLen characters
ChoiceChars == {"0", "1", "2", "3", "4", "x", " "}
ChoiceLines ==
    UNION {[1 .. len -> ChoiceChars] : len \in 0 .. MaxLineLen} \cup {ReadError}

\* at the date prompt: up to four segments joined by "-"
YearSegments ==
    { <<"2", "0", "2", "3">>, <<"2", "0", "2", "4">>, <<"2", "3">>,
      <<"2", "0", "2", "x">>, <<"x">>, <<>> }
MonthSegments ==
    { <<"0", "6">>, <<"6">>, <<"0", "2">>, <<"1", "2">>, <<"1", "3">>,
      <<"0", "0">>, <<"6", "x">>, <<"x">>, <<>> }
DaySegments ==
    { <<"1", "5">>, <<"5">>, <<"2", "9">>, <<"3", "0">>, <<"3", "1">>,
      <<"0", "0">>, <<"3", "2">>, <<"1", "x">>, <<>> }
DateLines ==
    {<<>>, <<" ">>, ReadError}
      \cup YearSegments
      \cup {y \o <<"-">> \o m : y \in YearSegments, m \in MonthSegments}
      \cup {y \o <<"-">> \o m \o <<"-">> \o d :
              y \in YearSegments, m \in MonthSegments, d \in DaySegments}
      \cup {y \o <<"-">> \o m \o <<"-">> \o <<"1", "5">> \o <<"-">> :
              y \in YearSegments, m \in MonthSegments}

\* the calls of promptChoice the driver makes
PlatformPrompt == [options |-> <<"reddit", "twitter">>, default |-> ""]
NoticePrompt == [options |-> <<"Continue anyway", "Exit">>, default |-> "Exit"]
ContentTypePrompt(p) ==
    IF p = "reddit"
      THEN [options |-> <<"all", "posts", "comments">>, default |-> "all"]
      ELSE [options |-> <<"all", "tweets", "replies">>, default |-> "all"]

(***************************************************************************)
(* cmd/go-del-socials: main, runRedditDeletion and runTwitterDeletion.     *)
(***************************************************************************)
\* log.Fatalf: the process exits with status 1
Fatal(stage) ==
    /\ pc' = "exited"
    /\ exit' = 1
    /\ fatal' = stage
    /\ UNCHANGED summary

\* loadConfig: the file is read and parsed
LoadConfig ==
    /\ pc = "loadConfig"
    /\ configReads' = configReads + 1
    /\ \E file \in {"ok", "unreadable", "unparsable"} :
         IF file # "ok"
           THEN Fatal("Failed to load configuration")
           ELSE pc' = "choosePlatform" /\ UNCHANGED runVars
    /\ UNCHANGED <<platform, err, tokenResp, accessToken, lookup, built, prompt,
                   stdin, prompted>>
    /\ UNCHANGED passVars

\* promptChoice("Choose platform:", {"reddit", "twitter"}, "")
ChoosePlatform ==
    /\ pc = "choosePlatform"
    /\ \E line \in ChoiceLines :
         LET r == promptChoice(PlatformPrompt.options, PlatformPrompt.default, line)
         IN  IF r.err # ""
               THEN Fatal("Failed to get platform choice") /\ UNCHANGED platform
               ELSE /\ platform' = r.value
                    /\ pc' = IF r.value = "reddit" THEN "NewClient" ELSE "notice"
                    /\ UNCHANGED runVars
    /\ UNCHANGED <<err, tokenResp, accessToken, lookup, configReads, built, prompt,
                   stdin, prompted>>
    /\ UNCHANGED passVars

\* the Twitter notice: "Continue anyway" or "Exit", which is the default and
\* ends the process with os.Exit(0)
TwitterNotice ==
    /\ pc = "notice"
    /\ \E line \in ChoiceLines :
         LET r == promptChoice(NoticePrompt.options, NoticePrompt.default, line)
         IN  IF r.err # ""
               THEN Fatal("Failed to get choice")
             ELSE IF r.value = "Exit"
               THEN /\ pc' = "exited"
                    /\ exit' = 0
                    /\ UNCHANGED <<fatal, summary>>
             ELSE pc' = "NewClient" /\ UNCHANGED runVars
    /\ UNCHANGED <<platform, err, tokenResp, accessToken, lookup, configReads,
                   built, prompt, stdin, prompted>>
    /\ UNCHANGED passVars

\* NewClient has returned: its error is wrapped, returned to main and fatal
OnNewClient ==
    /\ exit' = IF pc' = "failed" THEN 1 ELSE exit
    /\ fatal' = IF pc' = "failed" THEN "failed to create client" ELSE fatal
    /\ UNCHANGED summary

\* promptChoice("What would you like to delete?", ..., "all")
PromptContentType ==
    /\ pc = "ready"
    /\ \E line \in ChoiceLines :
         LET c == ContentTypePrompt(platform)
             r == promptChoice(c.options, c.default, line)
         IN  IF r.err # ""
               THEN /\ Fatal("failed to get content type choice")
                    /\ UNCHANGED contentType
               ELSE /\ contentType' = r.value
                    /\ pc' = "promptDate"
                    /\ UNCHANGED runVars
    /\ UNCHANGED <<err, cutoffDate, listing, After, n, next, i, item, calls,
                   deleteErr, retry, first, second, ret, served, ended, removed,
                   fetch429, fetchAnswer, skipped>>
    /\ UNCHANGED authVars

\* promptDate("Delete content before date", 2020-01-01).  The clock of the
\* model starts one second before the cutoff the operator has entered.
PromptCutoffDate ==
    /\ pc = "promptDate"
    /\ \E line \in DateLines :
         LET r == promptDate(line, DefaultCutoff)
         IN  IF r.err # ""
               THEN /\ Fatal("failed to get cutoff date")
                    /\ UNCHANGED cutoffDate
               ELSE /\ \E cd \in CutoffDates : cutoffDate' = cd
                    /\ pc' = "DeleteContent"
                    /\ UNCHANGED runVars
    /\ UNCHANGED <<err, contentType, listing, After, n, next, i, item, calls,
                   deleteErr, retry, first, second, ret, served, ended, removed,
                   fetch429, fetchAnswer, skipped>>
    /\ UNCHANGED authVars

SummaryAlways(e) ==
    /\ exit' = 0
    /\ fatal' = ""
    /\ summary' = TRUE
\* DeleteContent has returned: an error is wrapped, returned to main and
\* fatal; without one the summary is printed and main returns
Summary(e) ==
    /\ exit' = IF e = "" THEN 0 ELSE 1
    /\ fatal' = IF e = "" THEN "" ELSE "error during deletion"
    /\ summary' = (e = "")

(***************************************************************************)
(* pkg/reddit: NewClient.                                                  *)
(***************************************************************************)
\* what the token endpoint can answer: a status and a body
TokenResponses ==
    { [status |-> 200, body |-> "token"],       \* {"access_token": "..."}
      [status |-> 200, body |-> "json"],        \* {"error": "invalid_grant"}
      [status |-> 200, body |-> "malformed"],   \* not JSON
      [status |-> 401, body |-> "json"],        \* {"message": "Unauthorized", "error": 401}
      [status |-> 429, body |-> "malformed"],   \* an HTML error page
      [status |-> 500, body |-> "json"] }

\* json.NewDecoder(resp.Body).Decode(&tokenResp): ok and the access_token field
DecodeOK(resp) == resp.body # "malformed"
DecodedToken(resp) == IF resp.body = "token" THEN "tok" ELSE ""

RedditNewClient ==
    /\ platform = "reddit"
    /\ pc = "NewClient"
    /\ \E sdk \in {"ok", "error"}, answer \in TokenResponses \cup {NoResp} :
         IF sdk = "error"
           THEN /\ pc' = "failed"
                /\ err' = "failed to create Reddit client"
                /\ UNCHANGED <<tokenResp, accessToken>>
         ELSE IF answer = NoResp          \* httpClient.Do failed: no response
           THEN /\ pc' = "failed"
                /\ err' = "failed to get token"
                /\ UNCHANGED <<tokenResp, accessToken>>
         ELSE IF ~DecodeOK(answer)
           THEN /\ pc' = "failed"
                /\ err' = "failed to decode token response"
                /\ tokenResp' = answer
                /\ UNCHANGED accessToken
         ELSE /\ pc' = "ready"
              /\ err' = ""
              /\ tokenResp' = answer
              /\ accessToken' = DecodedToken(answer)
    /\ OnNewClient
    /\ built' = configReads
    /\ UNCHANGED <<platform, lookup, configReads, prompt, stdin, prompted>>
    /\ UNCHANGED passVars

(***************************************************************************)
(* pkg/twitter: NewClient and waitForRateLimit.                            *)
(***************************************************************************)
\* the outcomes of userlookup.GetByUsername: a user, a nil result, a
\* GotwiError with its status code, or an error of another kind
LookupAnswers == {"user", "nil", "401", "404", "429", "500", "transport"}

\* waitForRateLimit(err) sleeps iff err is a GotwiError with status 429
SleepsOnRateLimit(answer) == answer = "429"

loadCredentialsCached(reads) == reads
\* loadCredentials("config.json"): os.ReadFile, one more read of the file
loadCredentials(reads) == reads + 1

TwitterNewClient ==
    /\ platform = "twitter"
    /\ pc = "NewClient"
    /\ \E username \in {"", "user"},
          creds \in {"ok", "unreadable", "unparsable", "missing"},
          sdk \in {"ok", "error"},
          answer \in LookupAnswers :
         IF username = ""
           THEN /\ pc' = "failed"
                /\ err' = "invalid configuration"
                /\ UNCHANGED <<lookup, configReads, built>>
         ELSE IF creds # "ok"
           THEN /\ pc' = "failed"
                /\ err' = CASE creds = "unreadable" -> "failed to read config file"
                            [] creds = "unparsable" -> "failed to parse config file"
                            [] OTHER -> "missing required credentials in config file"
                /\ configReads' = loadCredentials(configReads)
                /\ UNCHANGED <<lookup, built>>
         ELSE IF sdk = "error"
           THEN /\ pc' = "failed"
                /\ err' = "failed to create Twitter client"
                /\ configReads' = loadCredentials(configReads)
                /\ built' = configReads'
                /\ UNCHANGED lookup
         ELSE /\ lookup' = answer
              /\ configReads' = loadCredentials(configReads)
              /\ built' = configReads'
              /\ CASE answer = "401" ->
                        pc' = "failed" /\ err' = "authentication failed"
                   [] answer = "404" ->
                        pc' = "failed" /\ err' = "user not found"
                   [] answer = "429" ->
                        pc' = "lookupWait" /\ err' = ""
                   [] answer \in {"500", "transport"} ->
                        pc' = "failed" /\ err' = "failed to get user ID"
                   [] answer = "nil" ->
                        pc' = "failed" /\ err' = "user data not found"
                   [] OTHER ->
                        pc' = "ready" /\ err' = ""
    /\ OnNewClient
    /\ UNCHANGED <<platform, tokenResp, accessToken, prompt, stdin, prompted>>
    /\ UNCHANGED passVars

\* NewClient after waitForRateLimit(err) has slept: line 111
TwitterLookupWait ==
    /\ pc = "lookupWait"
    /\ SleepsOnRateLimit(lookup)
    /\ pc' = "failed"
    /\ err' = "failed to get user ID"
    /\ OnNewClient
    /\ UNCHANGED <<platform, tokenResp, accessToken, lookup, configReads, built,
                   prompt, stdin, prompted>>
    /\ UNCHANGED passVars

(***************************************************************************)
(* The provider's side of a listing request.  A listing has at most        *)
(* MaxPages pages; each page but the last carries the cursor of the next   *)
(* one, and the last page is either without a cursor or empty.  A request  *)
(* past the last page is answered with an empty page.                      *)
(***************************************************************************)
PageChoices ==
    IF ended \/ served >= MaxPages
      THEN {<<0, NoCursor>>}
      ELSE {c \in (0 .. MaxPageLen) \X {NoCursor, served + 1} :
              served + 1 = MaxPages => (c[1] = 0 \/ c[2] = NoCursor)}

\* the provider serves the page c = <<length, cursor>>
Serve(c) ==
    /\ served' = served + 1
    /\ ended' = (c[1] = 0 \/ c[2] = NoCursor)
    /\ fetch429' = 0

\* the tweet references another tweet with relation type "replied_to"
HasRepliedTo(t) == "replied_to" \in {t.ReferencedTweets[k] : k \in DOMAIN t.ReferencedTweets}

\* the provider deletes the element: one more of its kind is gone
Remove(isSecond) ==
    removed' = IF isSecond THEN <<removed[1], removed[2] + 1>>
                           ELSE <<removed[1] + 1, removed[2]>>

\* return first, second, e
Return(e) ==
    /\ pc' = "returned"
    /\ err' = e
    /\ ret' = <<first, second>>
    /\ Summary(e)

KeepCursor(cursor, nextCursor) == cursor
\* postsOpts.After = resp.After / params.PaginationToken = nextToken
NextCursor(cursor, nextCursor) == nextCursor

HasNextPageAlways(cursor) == TRUE
\* resp.After == "" / nextToken == "" breaks the loop
HasNextPage(cursor) == cursor # NoCursor

(***************************************************************************)
(* pkg/reddit: DeleteContent.                                              *)
(***************************************************************************)
\* lines 112 and 157: which loops the selector enables
RedditWantsPosts(ct) == ct = "all" \/ ct = "posts"
RedditWantsComments(ct) == ct = "all" \/ ct = "comments"

\* entry: the counters, and the first enabled loop
RedditDeleteContent ==
    /\ platform = "reddit"
    /\ pc = "DeleteContent"
    /\ listing' = IF RedditWantsPosts(contentType) THEN "posts" ELSE "comments"
    /\ first' = 0
    /\ second' = 0
    /\ After' = NoCursor
    /\ pc' = "fetch"
    /\ UNCHANGED <<exit, fatal, summary, err, contentType, cutoffDate, n, next,
                   i, item, calls, deleteErr, retry, ret, served, ended, removed,
                   fetch429>>
    /\ UNCHANGED <<fetchAnswer, skipped>>
    /\ UNCHANGED authVars

RedditOnFetchErrorBreak ==
    /\ pc' = "break"
    /\ UNCHANGED <<exit, fatal, summary, err, ret>>
\* if err != nil { return postsDeleted, commentsDeleted, fmt.Errorf(...) }
RedditOnFetchError ==
    Return(IF listing = "posts" THEN "failed to fetch posts"
                                ELSE "failed to fetch comments")

\* c.User.Posts / c.User.Comments, the error check and the empty-page check
RedditFetch ==
    /\ platform = "reddit"
    /\ pc = "fetch"
    /\ \E answer \in {"page", "error", "429"} :
         /\ fetchAnswer' = answer
         /\ IF answer # "page"
           THEN /\ RedditOnFetchError
                /\ UNCHANGED <<n, next, i, item, calls, deleteErr, served, ended,
                               fetch429, skipped>>
           ELSE \E c \in PageChoices :
                  /\ Serve(c)
                  /\ skipped' = 0
                  /\ n' = c[1]
                  /\ next' = c[2]
                  /\ i' = 0
                  /\ item' = NoItem
                  /\ calls' = 0
                  /\ deleteErr' = "none"
                  /\ pc' = IF c[1] = 0 THEN "break" ELSE "item"
                  /\ UNCHANGED <<exit, fatal, summary, err, ret>>
    /\ UNCHANGED <<contentType, cutoffDate, listing, After, retry, first, second,
                   removed>>
    /\ UNCHANGED authVars

\* the range loop reaches an element: the cutoff test
RedditItem ==
    /\ platform = "reddit"
    /\ pc = "item"
    /\ i < n
    /\ \E it \in RedditItems :
         /\ item' = it
         /\ IF Before(RedditItemTime(it), cutoffDate)
              THEN pc' = "delete" /\ i' = i
              ELSE pc' = "item" /\ i' = i + 1
    /\ calls' = 0
    /\ deleteErr' = "none"
    /\ UNCHANGED <<exit, fatal, summary, err, contentType, cutoffDate, listing, After, n, next, retry,
                   first, second, ret, served, ended, removed, fetch429>>
    /\ UNCHANGED <<fetchAnswer, skipped>>
    /\ UNCHANGED authVars

\* c.deleteContent(fullname): nil iff the endpoint answered 200 OK
RedditDeleteFailed(answer) == answer # "ok"

RedditOnDeleteErrorAbort ==
    /\ Return("failed to delete")
    /\ i' = i
\* the error is printed, and "continue" goes to the next element
RedditOnDeleteError ==
    /\ pc' = "item"
    /\ i' = i + 1
    /\ UNCHANGED <<exit, fatal, summary, err, ret>>

\* the delete call, and the counter on success
RedditDelete ==
    /\ platform = "reddit"
    /\ pc = "delete"
    /\ \E answer \in DeleteAnswers :
         /\ deleteErr' = answer
         /\ IF RedditDeleteFailed(answer)
              THEN /\ RedditOnDeleteError
                   /\ skipped' = skipped + 1
                   /\ UNCHANGED <<first, second, removed>>
              ELSE /\ Remove(listing = "comments")
                   /\ first' = IF listing = "posts" THEN first + 1 ELSE first
                   /\ second' = IF listing = "comments" THEN second + 1 ELSE second
                   /\ i' = i + 1
                   /\ pc' = "item"
                   /\ UNCHANGED <<exit, fatal, summary, err, ret, skipped>>
    /\ calls' = calls + 1
    /\ UNCHANGED <<contentType, cutoffDate, listing, After, n, next, item,
                   retry, served, ended, fetch429>>
    /\ UNCHANGED fetchAnswer
    /\ UNCHANGED authVars

\* after the range loop (its variable is gone): resp.After == "" breaks,
\* else the cursor advances
RedditNextPage ==
    /\ platform = "reddit"
    /\ pc = "item"
    /\ i = n
    /\ IF ~HasNextPage(next)
         THEN pc' = "break" /\ UNCHANGED After
         ELSE pc' = "pageDelay" /\ After' = NextCursor(After, next)
    /\ item' = NoItem
    /\ calls' = 0
    /\ deleteErr' = "none"
    /\ UNCHANGED <<exit, fatal, summary, err, contentType, cutoffDate, listing, n, next, i, retry,
                   first, second, ret, served, ended, removed, fetch429>>
    /\ UNCHANGED <<fetchAnswer, skipped>>
    /\ UNCHANGED authVars

\* time.Sleep(2 * time.Second)
RedditPageDelay ==
    /\ platform = "reddit"
    /\ pc = "pageDelay"
    /\ pc' = "fetch"
    /\ UNCHANGED <<exit, fatal, summary, err, contentType, cutoffDate, listing, After, n, next, i, item,
                   calls, deleteErr, retry, first, second, ret, served, ended,
                   removed, fetch429>>
    /\ UNCHANGED <<fetchAnswer, skipped>>
    /\ UNCHANGED authVars

\* a loop is left: the comments loop follows the posts loop under "all"
RedditLoopExit ==
    /\ platform = "reddit"
    /\ pc = "break"
    /\ IF listing = "posts" /\ RedditWantsComments(contentType)
         THEN /\ listing' = "comments"
              /\ After' = NoCursor
              /\ served' = 0
              /\ ended' = FALSE
              /\ pc' = "fetch"
              /\ UNCHANGED <<exit, fatal, summary, err, ret>>
         ELSE /\ Return("")
              /\ UNCHANGED <<listing, After, served, ended>>
    /\ UNCHANGED <<contentType, cutoffDate, n, next, i, item, calls, deleteErr,
                   retry, first, second, removed, fetch429>>
    /\ UNCHANGED <<fetchAnswer, skipped>>
    /\ UNCHANGED authVars

(***************************************************************************)
(* pkg/twitter: DeleteContent.                                             *)
(***************************************************************************)
IsReplyFirstOnly(t) ==
    t.ReferencedTweets # <<>> /\ t.ReferencedTweets[1] = "replied_to"
\* lines 188-196: a reply has a reference of type "replied_to"
IsReply(t) == \E k \in DOMAIN t.ReferencedTweets : t.ReferencedTweets[k] = "replied_to"

TwitterSelectedAny(ct, isReply) == ct \in {"all", "tweets", "replies"}
\* lines 211-213
TwitterSelected(ct, isReply) ==
    \/ ct = "all"
    \/ (ct = "tweets" /\ ~isReply)
    \/ (ct = "replies" /\ isReply)

TwitterDeleteContent ==
    /\ platform = "twitter"
    /\ pc = "DeleteContent"
    /\ listing' = "tweets"
    /\ first' = 0
    /\ second' = 0
    /\ After' = NoCursor
    /\ pc' = "fetch"
    /\ UNCHANGED <<exit, fatal, summary, err, contentType, cutoffDate, n, next,
                   i, item, calls, deleteErr, retry, ret, served, ended, removed,
                   fetch429>>
    /\ UNCHANGED <<fetchAnswer, skipped>>
    /\ UNCHANGED authVars

\* what timeline.ListTweets can answer
TwitterFetchAnswers ==
    {"page", "error", "nil"} \cup (IF fetch429 < MaxFetch429 THEN {"429"} ELSE {})

TwitterOnFetchRateLimitAbort ==
    /\ Return("failed to fetch tweets")
    /\ UNCHANGED fetch429
\* lines 164-167: a 429 goes to waitForRateLimit and "continue"
TwitterOnFetchRateLimit ==
    /\ pc' = "fetchWait"
    /\ fetch429' = fetch429 + 1
    /\ UNCHANGED <<exit, fatal, summary, err, ret>>

\* timeline.ListTweets, the error checks and the empty-page check
TwitterFetch ==
    /\ platform = "twitter"
    /\ pc = "fetch"
    /\ \E answer \in TwitterFetchAnswers :
         /\ fetchAnswer' = answer
         /\ CASE answer = "429" ->
                /\ TwitterOnFetchRateLimit
                /\ UNCHANGED <<n, next, i, item, calls, deleteErr, served, ended,
                               skipped>>
           [] answer = "error" ->
                /\ Return("failed to fetch tweets")
                /\ UNCHANGED <<n, next, i, item, calls, deleteErr, served, ended,
                               fetch429, skipped>>
           [] answer = "nil" ->
                /\ Return("received nil response from Twitter API")
                /\ UNCHANGED <<n, next, i, item, calls, deleteErr, served, ended,
                               fetch429, skipped>>
           [] OTHER ->
                \E c \in PageChoices :
                  /\ Serve(c)
                  /\ skipped' = 0
                  /\ n' = c[1]
                  /\ next' = c[2]
                  /\ i' = 0
                  /\ item' = NoItem
                  /\ calls' = 0
                  /\ deleteErr' = "none"
                  /\ IF c[1] = 0
                       THEN Return("")
                       ELSE pc' = "item" /\ UNCHANGED <<exit, fatal, summary, err, ret>>
    /\ UNCHANGED <<contentType, cutoffDate, listing, After, retry, first, second,
                   removed>>
    /\ UNCHANGED authVars

\* waitForRateLimit(err); continue: the same request is issued again
TwitterFetchWait ==
    /\ platform = "twitter"
    /\ pc = "fetchWait"
    /\ pc' = "fetch"
    /\ UNCHANGED <<exit, fatal, summary, err, contentType, cutoffDate, listing, After, n, next, i, item,
                   calls, deleteErr, retry, first, second, ret, served, ended,
                   removed, fetch429>>
    /\ UNCHANGED <<fetchAnswer, skipped>>
    /\ UNCHANGED authVars

\* the range loop reaches a tweet: cutoff, empty ID, selector
TwitterItem ==
    /\ platform = "twitter"
    /\ pc = "item"
    /\ i < n
    /\ \E t \in Tweets :
         /\ item' = t
         /\ IF /\ Before(t.Created, cutoffDate)
               /\ t.ID # ""
               /\ TwitterSelected(contentType, IsReply(t))
              THEN pc' = "delete" /\ i' = i
              ELSE pc' = "item" /\ i' = i + 1
    /\ calls' = 0
    /\ deleteErr' = "none"
    /\ retry' = 0
    /\ UNCHANGED <<exit, fatal, summary, err, contentType, cutoffDate, listing, After, n, next, first,
                   second, ret, served, ended, removed, fetch429>>
    /\ UNCHANGED <<fetchAnswer, skipped>>
    /\ UNCHANGED authVars

RetryAllowedOneMore(r) == r <= maxRetries
\* line 221: the loop condition retry < maxRetries
RetryAllowed(r) == r < maxRetries

\* one turn of the retry loop: managetweet.Delete and what follows its answer
TwitterDelete ==
    /\ platform = "twitter"
    /\ pc = "delete"
    /\ RetryAllowed(retry)
    /\ \E answer \in DeleteAnswers :
         /\ deleteErr' = answer
         /\ CASE answer = "ok" ->
                   /\ Remove(HasRepliedTo(item))
                   /\ first' = IF IsReply(item) THEN first ELSE first + 1
                   /\ second' = IF IsReply(item) THEN second + 1 ELSE second
                   /\ i' = i + 1
                   /\ pc' = "item"
                   /\ UNCHANGED skipped
              [] answer = "429" ->
                   /\ pc' = "deleteWait"
                   /\ UNCHANGED <<i, first, second, removed, skipped>>
              [] OTHER ->
                   /\ i' = i + 1
                   /\ pc' = "item"
                   /\ skipped' = skipped + 1
                   /\ UNCHANGED <<first, second, removed>>
    /\ calls' = calls + 1
    /\ UNCHANGED <<exit, fatal, summary, err, contentType, cutoffDate, listing, After, n, next, item,
                   retry, ret, served, ended, fetch429>>
    /\ UNCHANGED fetchAnswer
    /\ UNCHANGED authVars

RetrySame(r) == r
\* line 221: "continue" runs the post statement retry++
RetryNext(r) == r + 1

\* waitForRateLimit(deleteErr); continue: retry++ and the loop condition
TwitterDeleteWait ==
    /\ platform = "twitter"
    /\ pc = "deleteWait"
    /\ retry' = RetryNext(retry)
    /\ IF RetryAllowed(retry')
         THEN pc' = "delete" /\ i' = i /\ skipped' = skipped
         ELSE pc' = "item" /\ i' = i + 1 /\ skipped' = skipped + 1
    /\ UNCHANGED <<exit, fatal, summary, err, contentType, cutoffDate, listing, After, n, next, item,
                   calls, deleteErr, first, second, ret, served, ended, removed,
                   fetch429>>
    /\ UNCHANGED fetchAnswer
    /\ UNCHANGED authVars

\* after the range loop (its variable is gone): an empty next_token breaks,
\* else the token advances
TwitterNextPage ==
    /\ platform = "twitter"
    /\ pc = "item"
    /\ i = n
    /\ IF ~HasNextPage(next)
         THEN Return("") /\ UNCHANGED After
         ELSE pc' = "pageDelay" /\ After' = NextCursor(After, next) /\ UNCHANGED <<exit, fatal, summary, err, ret>>
    /\ item' = NoItem
    /\ calls' = 0
    /\ deleteErr' = "none"
    /\ UNCHANGED <<contentType, cutoffDate, listing, n, next, i, retry, first,
                   second, served, ended, removed, fetch429>>
    /\ UNCHANGED <<fetchAnswer, skipped>>
    /\ UNCHANGED authVars

\* time.Sleep(baseDelay)
TwitterPageDelay ==
    /\ platform = "twitter"
    /\ pc = "pageDelay"
    /\ pc' = "fetch"
    /\ UNCHANGED <<exit, fatal, summary, err, contentType, cutoffDate, listing, After, n, next, i, item,
                   calls, deleteErr, retry, first, second, ret, served, ended,
                   removed, fetch429>>
    /\ UNCHANGED <<fetchAnswer, skipped>>
    /\ UNCHANGED authVars

\* the seconds the program sleeps at its position: time.Sleep of the page
\* delay, or of waitForRateLimit
SleepSeconds ==
    CASE pc = "pageDelay" -> IF platform = "reddit" THEN redditDelay ELSE baseDelay
      [] pc \in {"lookupWait", "fetchWait", "deleteWait"} -> waitTime
      [] OTHER -> 0

Next ==
    \/ LoadConfig
    \/ ChoosePlatform
    \/ TwitterNotice
    \/ PromptContentType
    \/ PromptCutoffDate
    \/ RedditNewClient
    \/ TwitterNewClient
    \/ TwitterLookupWait
    \/ RedditDeleteContent
    \/ RedditFetch
    \/ RedditItem
    \/ RedditDelete
    \/ RedditNextPage
    \/ RedditPageDelay
    \/ RedditLoopExit
    \/ TwitterDeleteContent
    \/ TwitterFetch
    \/ TwitterFetchWait
    \/ TwitterItem
    \/ TwitterDelete
    \/ TwitterDeleteWait
    \/ TwitterNextPage
    \/ TwitterPageDelay

Spec == Init /\ [][Next]_vars

\* the program never stops by choice: every sleep ends and every call is answered
LiveSpec == Spec /\ WF_vars(Next)

(***************************************************************************)
(* The prompt functions on their own: one call of promptChoice, or of      *)
(* promptDate, with arguments the driver passes and a line from the        *)
(* operator.                                                               *)
(***************************************************************************)
PromptChoiceCalls ==
    {PlatformPrompt, NoticePrompt, ContentTypePrompt("reddit"),
     ContentTypePrompt("twitter")}

PromptChoiceInit ==
    /\ Zero
    /\ pc = "callPromptChoice"
    /\ prompt \in PromptChoiceCalls
    /\ stdin \in ChoiceLines
    /\ prompted = NoAnswer

PromptChoiceCall ==
    /\ pc = "callPromptChoice"
    /\ prompted' = promptChoice(prompt.options, prompt.default, stdin)
    /\ pc' = "choice"
    /\ UNCHANGED <<platform, err, tokenResp, accessToken, lookup, configReads,
                   built, prompt, stdin>>
    /\ UNCHANGED runVars
    /\ UNCHANGED passVars

PromptChoiceSpec == PromptChoiceInit /\ [][PromptChoiceCall]_vars

PromptDateInit ==
    /\ Zero
    /\ pc = "callPromptDate"
    /\ prompt = [options |-> <<>>, default |-> DefaultCutoff]
    /\ stdin \in DateLines
    /\ prompted = NoAnswer

PromptDateCall ==
    /\ pc = "callPromptDate"
    /\ prompted' = promptDate(stdin, prompt.default)
    /\ pc' = "date"
    /\ UNCHANGED <<platform, err, tokenResp, accessToken, lookup, configReads,
                   built, prompt, stdin>>
    /\ UNCHANGED runVars
    /\ UNCHANGED passVars

PromptDateSpec == PromptDateInit /\ [][PromptDateCall]_vars

(***************************************************************************)
(* The vocabulary of the properties.                                       *)
(***************************************************************************)
\* a delete call for item is about to be issued, or has been
Targeted == pc \in {"delete", "deleteWait"} \/ calls > 0

\* the range loop has just left item
Processed == pc = "item" /\ i > 0

\* item is of a category the active selector names
MatchesSelector ==
    IF platform = "reddit"
      THEN \/ contentType = "all"
           \/ (contentType = "posts" /\ listing = "posts")
           \/ (contentType = "comments" /\ listing = "comments")
      ELSE \/ contentType = "all"
           \/ (contentType = "tweets" /\ ~HasRepliedTo(item))
           \/ (contentType = "replies" /\ HasRepliedTo(item))

\* item was created before the cutoff, can be named in a delete call, and
\* matches the selector
Eligible == item.Created < cutoffDate /\ item.ID # "" /\ MatchesSelector

(***************************************************************************)
(* C1: in the Reddit and in the Twitter pass, no delete call is ever       *)
(* issued for an item created at or after the cutoff.                      *)
(***************************************************************************)
C1_NoDeleteAtOrAfterCutoff == Targeted => item.Created < cutoffDate

\* a post created exactly at the cutoff has been passed over
C1_Witness ==
    /\ platform = "reddit"
    /\ Processed
    /\ item.Created = cutoffDate
    /\ calls = 0

(***************************************************************************)
(* C2, as stated: every item created before the cutoff that matches the    *)
(* selector gets exactly one delete call, whatever the delete endpoint     *)
(* answers.  (Stated for the items that carry an id.)                      *)
(***************************************************************************)
C2_ExactlyOneAttempt == (Processed /\ Eligible) => calls = 1

(***************************************************************************)
(* C2, amended: every such item with a non-empty id gets exactly one       *)
(* delete call in the Reddit pass; in the Twitter pass it gets at least    *)
(* one and at most maxRetries delete calls, and the calls stop short of    *)
(* maxRetries only on an answer other than 429.                            *)
(***************************************************************************)
C2_AttemptsPerItem ==
    /\ calls <= (IF platform = "twitter" THEN maxRetries ELSE 1)
    /\ (Processed /\ Eligible) =>
         IF platform = "reddit"
           THEN calls = 1
           ELSE /\ calls \in 1 .. maxRetries
                /\ deleteErr = "429" => calls = maxRetries

\* a tweet that was deleted at the second call, after one 429
C2_Witness ==
    /\ platform = "twitter"
    /\ Processed
    /\ Eligible
    /\ calls = 2
    /\ deleteErr = "ok"

(***************************************************************************)
(* C3: the selector gates deletion.  Under "posts" no comment and under    *)
(* "comments" no post is targeted (the other listing is not even fetched); *)
(* under "tweets" no reply and under "replies" no non-reply is targeted;   *)
(* under "all" every item created before the cutoff is targeted, and the   *)
(* Reddit pass that returns without error has gone through both listings.  *)
(***************************************************************************)
C3_SelectorGates ==
    /\ Targeted => MatchesSelector
    /\ (listing = "posts" => contentType \in {"all", "posts"})
    /\ (listing = "comments" => contentType \in {"all", "comments"})
    /\ (Processed /\ contentType = "all" /\ item.Created < cutoffDate /\ item.ID # "")
         => calls > 0
    /\ (platform = "reddit" /\ pc = "returned" /\ err = "" /\ contentType = "all")
         => listing = "comments"

\* under "replies", an old tweet that is not a reply has been passed over
C3_Witness ==
    /\ platform = "twitter"
    /\ contentType = "replies"
    /\ Processed
    /\ ~HasRepliedTo(item)
    /\ item.Created < cutoffDate
    /\ item.ID # ""
    /\ calls = 0

(***************************************************************************)
(* C4: a failed delete call never aborts the pass.  The step that gets the *)
(* failure stays on the same page and goes on to the next element (or, on  *)
(* a Twitter 429, to the wait and from there to the retry or the next      *)
(* element); the page's cursor is kept, so later pages are fetched; and    *)
(* DeleteContent returns an error only from a failed listing request.      *)
(***************************************************************************)
C4_DeleteFailureNeverAborts ==
    [][ /\ (pc = "delete" /\ deleteErr' # "ok") =>
             /\ pc' \in {"item", "deleteWait"}
             /\ (pc' = "item" => i' = i + 1)
             /\ (pc' = "deleteWait" => platform = "twitter" /\ deleteErr' = "429")
             /\ UNCHANGED <<n, next, listing, After, err, ret>>
        /\ (pc = "deleteWait") =>
             /\ pc' \in {"delete", "item"}
             /\ (pc' = "item" => i' = i + 1)
             /\ UNCHANGED <<n, next, listing, After, err, ret>>
        /\ (pc' = "returned" /\ err' # "") =>
             (pc = "fetch" /\ fetchAnswer' # "page")
      ]_vars

\* on the first page the delete of element 1 failed and element 2 was deleted
C4_Witness ==
    /\ Processed
    /\ served = 1
    /\ i = 2
    /\ skipped = 1
    /\ calls = 1
    /\ deleteErr = "ok"

(***************************************************************************)
(* C5: a listing request that fails with an unrecoverable error aborts the *)
(* pass.  DeleteContent returns at once with an error and with the two     *)
(* counters, which equal the deletions the provider has carried out; and   *)
(* nothing happens after the return: no further fetch, no delete, and      *)
(* under Reddit's "all" no listing of the comments.                        *)
(***************************************************************************)
Unrecoverable ==
    IF platform = "reddit" THEN {"error", "429"} ELSE {"error", "nil"}

C5_FetchFailureAborts ==
    [][ /\ (pc = "fetch" /\ fetchAnswer' \in Unrecoverable) =>
             /\ pc' = "returned"
             /\ err' # ""
             /\ ret' = <<first, second>>
             /\ ret' = removed
             /\ UNCHANGED <<listing, served, calls, removed>>
        /\ pc # "returned"
      ]_vars

\* under "all" the posts listing failed after one post had been deleted
C5_Witness ==
    /\ platform = "reddit"
    /\ contentType = "all"
    /\ pc = "returned"
    /\ err = "failed to fetch posts"
    /\ listing = "posts"
    /\ ret = <<1, 0>>

(***************************************************************************)
(* C6: against a provider that serves finitely many pages, every pass      *)
(* terminates, and no listing request follows the first empty page or the  *)
(* first page without a cursor of a listing.                               *)
(***************************************************************************)
C6_PaginationTerminates ==
    /\ <>(pc \in {"returned", "failed", "exited"})
    /\ [](pc \in {"fetch", "fetchWait", "pageDelay"} => ~ended)

\* a pass that ended on the empty page that followed a page with a cursor
C6_Witness ==
    /\ pc = "returned"
    /\ err = ""
    /\ served = MaxPages
    /\ n = 0
    /\ After # NoCursor

(***************************************************************************)
(* C7, as stated: a Twitter delete answered with 429 is followed by the    *)
(* wait and by a retry that does not consume one of the retry slots.       *)
(***************************************************************************)
C7_RetryKeepsSlot ==
    [][ (platform = "twitter" /\ pc = "deleteWait") =>
          (pc' = "delete" /\ retry' = retry) ]_vars

(***************************************************************************)
(* C7, amended: a Twitter delete answered with 429 is followed by the      *)
(* wait; the wait consumes one of the maxRetries slots, and the same tweet *)
(* is tried again only if fewer than maxRetries calls have been made for   *)
(* it, else it is abandoned uncounted.  A delete answered with another     *)
(* error abandons the tweet at once.  No tweet gets more than maxRetries   *)
(* delete calls.                                                           *)
(***************************************************************************)
C7_RetryConsumesSlot ==
    [][ platform = "twitter" =>
          /\ (pc = "delete" /\ deleteErr' = "429") =>
               (pc' = "deleteWait" /\ i' = i /\ item' = item)
          /\ (pc = "deleteWait") =>
               /\ retry' = retry + 1
               /\ IF calls < maxRetries
                    THEN pc' = "delete" /\ i' = i /\ item' = item
                    ELSE pc' = "item" /\ i' = i + 1
               /\ UNCHANGED <<first, second, calls>>
          /\ (pc = "delete" /\ deleteErr' = "error") =>
               (pc' = "item" /\ i' = i + 1 /\ UNCHANGED <<first, second>>)
          /\ calls' <= maxRetries
      ]_vars

\* a tweet abandoned after maxRetries calls that were all answered with 429
C7_Witness ==
    /\ platform = "twitter"
    /\ Processed
    /\ calls = maxRetries
    /\ deleteErr = "429"
    /\ first = 0
    /\ second = 0

(***************************************************************************)
(* C8: in the Twitter pass a 429 never aborts the pass.  A 429 on a        *)
(* listing request leads to the wait and to the same request again (same   *)
(* pagination token, same counters); a 429 on a delete leads to the wait;  *)
(* and an error is returned only for a listing request that failed         *)
(* otherwise.                                                              *)
(***************************************************************************)
C8_RateLimitNeverAborts ==
    [][ platform = "twitter" =>
          /\ (pc = "fetch" /\ fetchAnswer' = "429") =>
               (pc' = "fetchWait" /\ UNCHANGED <<After, first, second, err, ret, served>>)
          /\ (pc = "fetchWait") =>
               (pc' = "fetch" /\ UNCHANGED <<After, first, second, err, ret, served>>)
          /\ (pc = "delete" /\ deleteErr' = "429") =>
               (pc' = "deleteWait" /\ UNCHANGED <<err, ret>>)
          /\ (pc = "deleteWait") =>
               (pc' \in {"delete", "item"} /\ UNCHANGED <<err, ret>>)
          /\ (pc' = "returned" /\ err' # "") =>
               (pc = "fetch" /\ fetchAnswer' \in {"error", "nil"})
      ]_vars

\* the request for the second page is about to be issued again after a 429
C8_Witness ==
    /\ platform = "twitter"
    /\ pc = "fetch"
    /\ fetchAnswer = "429"
    /\ After # NoCursor
    /\ first > 0

(***************************************************************************)
(* C9, as stated: in Twitter's NewClient a lookup answered 401 fails with  *)
(* an authentication error, one answered 404 with a user-not-found error,  *)
(* and one answered 429 is waited out and retried, so that NewClient does  *)
(* not fail because of the rate limit.                                     *)
(***************************************************************************)
C9_LookupOutcomes ==
    platform = "twitter" =>
      /\ (lookup = "401" => (pc = "failed" /\ err = "authentication failed"))
      /\ (lookup = "404" => (pc = "failed" /\ err = "user not found"))
      /\ (lookup = "429" => pc # "failed")

(***************************************************************************)
(* C10, as stated: Reddit's NewClient fails whenever the token endpoint    *)
(* answers with a non-2xx status or with a body that cannot be decoded, so *)
(* that no client, and no delete call, comes out of a non-2xx answer.      *)
(***************************************************************************)
C10_TokenFailureFails ==
    (platform = "reddit" /\ tokenResp # NoResp) =>
      /\ (tokenResp.status \notin 200 .. 299 => pc = "failed")
      /\ (tokenResp.body = "malformed" => pc = "failed")

(***************************************************************************)
(* C11, as stated: a run that exits with status 0 has completed a deletion *)
(* pass without error and has printed its summary.                         *)
(***************************************************************************)
C11_ExitZeroAfterPass ==
    exit = 0 => (pc = "returned" /\ err = "" /\ summary)

\* no client has been created, no prompt of a flow answered, no pass begun
NoClient == tokenResp = NoResp /\ accessToken = "" /\ lookup = "none" /\ built = 0
NoContentType == contentType = "none"
NoCutoff == cutoffDate = 0
NoPass == listing = "none" /\ fetchAnswer = "none" /\ ret = NoRet

(***************************************************************************)
(* C11, amended: the driver goes through loading the configuration, the    *)
(* platform choice, for Twitter the notice prompt, the creation of the     *)
(* client, the content-type prompt, the date prompt and the deletion pass. *)
(* An error at any of these stages ends the process with status 1 and the  *)
(* later stages are never entered; a process that has ended takes no more  *)
(* steps.  A run that exits with status 0 has either completed a pass      *)
(* without error and printed its summary, or it has been ended at the      *)
(* Twitter notice prompt by the choice "Exit" (the default there), before  *)
(* any client was created.                                                 *)
(***************************************************************************)
C11_FatalStagesAndExit ==
    /\ [](exit = 0 =>
            \/ (pc = "returned" /\ err = "" /\ summary /\ fatal = "")
            \/ (pc = "exited" /\ platform = "twitter" /\ fatal = "" /\ ~summary
                  /\ NoClient /\ NoContentType /\ NoCutoff /\ NoPass))
    /\ [](exit = 1 <=> fatal # "")
    /\ [](exit \in {-1, 0, 1})
    /\ [](summary => exit = 0)
    /\ [](fatal = "Failed to load configuration" =>
            platform = "none" /\ NoClient /\ NoContentType /\ NoCutoff /\ NoPass)
    /\ [](fatal = "Failed to get platform choice" =>
            platform = "none" /\ NoClient /\ NoContentType /\ NoCutoff /\ NoPass)
    /\ [](fatal = "Failed to get choice" =>
            NoClient /\ NoContentType /\ NoCutoff /\ NoPass)
    /\ [](fatal = "failed to create client" =>
            pc = "failed" /\ err # "" /\ NoContentType /\ NoCutoff /\ NoPass)
    /\ [](fatal = "failed to get content type choice" =>
            NoContentType /\ NoCutoff /\ NoPass)
    /\ [](fatal = "failed to get cutoff date" => NoCutoff /\ NoPass)
    /\ [](fatal = "error during deletion" =>
            pc = "returned" /\ err # "" /\ ~summary)
    /\ [](pc \in {"failed", "exited", "returned"} <=> exit # -1)
    /\ [][exit = -1]_vars

\* a Twitter run that went past the notice, deleted a tweet and exited with 0
C11_Witness ==
    /\ platform = "twitter"
    /\ exit = 0
    /\ summary
    /\ pc = "returned"
    /\ ret[1] > 0

(***************************************************************************)
(* C12, as stated: promptChoice returns the default on a blank line when a *)
(* default is given and fails on it when none is given; on a line that is  *)
(* the 1-based index k of an option it returns options[k]; on any other    *)
(* line, be it out of range or not a number, it fails with the             *)
(* invalid-choice error and returns no option.                             *)
(***************************************************************************)
C12_PromptChoice ==
    (pc = "choice" /\ stdin # ReadError) =>
      LET input == TrimSpace(stdin)
          isIndex == AllDigits(input) /\ Atoi(input) \in 1 .. Len(prompt.options)
      IN  /\ (input = <<>> /\ prompt.default # "") =>
               prompted = [value |-> prompt.default, err |-> ""]
          /\ (input = <<>> /\ prompt.default = "") =>
               (prompted.err # "" /\ prompted.value = "")
          /\ isIndex =>
               prompted = [value |-> prompt.options[Atoi(input)], err |-> ""]
          /\ (input # <<>> /\ ~isIndex) =>
               prompted = [value |-> "", err |-> "invalid choice"]

(***************************************************************************)
(* C13, as stated: promptDate returns the default on a blank line; it      *)
(* resolves YYYY to January 1 of that year, YYYY-MM to day 1 of that       *)
(* month and YYYY-MM-DD to that date; and it fails when the month is       *)
(* outside 1..12 or when a segment cannot be parsed.                       *)
(***************************************************************************)
C13_PromptDate ==
    (pc = "date" /\ stdin # ReadError) =>
      LET input == TrimSpace(stdin)
          seg == Split(input)
          num(k) == Atoi(seg[k])
      IN  /\ input = <<>> => prompted = [value |-> prompt.default, err |-> ""]
          /\ (Len(seg) = 1 /\ AllDigits(seg[1])) =>
               prompted = [value |-> <<num(1), 1, 1>>, err |-> ""]
          /\ (Len(seg) = 2 /\ AllDigits(seg[1]) /\ AllDigits(seg[2])
                /\ num(2) \in 1 .. 12) =>
               prompted = [value |-> <<num(1), num(2), 1>>, err |-> ""]
          /\ (/\ Len(seg) = 3
              /\ AllDigits(seg[1]) /\ Len(seg[1]) = 4
              /\ AllDigits(seg[2]) /\ Len(seg[2]) = 2
              /\ AllDigits(seg[3]) /\ Len(seg[3]) = 2
              /\ num(2) \in 1 .. 12
              /\ num(3) \in 1 .. DaysIn(num(1), num(2))) =>
               prompted = [value |-> <<num(1), num(2), num(3)>>, err |-> ""]
          /\ (Len(seg) >= 2 /\ AllDigits(seg[2]) /\ num(2) \notin 1 .. 12) =>
               prompted.err # ""
          /\ (input # <<>> /\ \E k \in DOMAIN seg : ~AllDigits(seg[k])) =>
               prompted.err # ""

(***************************************************************************)
(* C14: the tally is exact at every point of a pass and at its return.     *)
(* The first counter is the number of posts (of tweets that are no         *)
(* replies) the provider has deleted, the second the number of comments    *)
(* (of tweets with a "replied_to" reference) it has deleted; a counter     *)
(* moves only with a delete call that succeeded, by one, and it is the     *)
(* counter of the item's kind; a failed delete call, a wait and an item    *)
(* passed over move neither counter.                                       *)
(***************************************************************************)
C14_TallyExact ==
    /\ [](<<first, second>> = removed)
    /\ [](pc = "returned" => ret = removed)
    /\ [][ /\ (pc = "delete" /\ deleteErr' = "ok") =>
                 LET isSecond == IF platform = "reddit"
                                   THEN listing = "comments"
                                   ELSE HasRepliedTo(item)
                 IN  /\ first' = first + (IF isSecond THEN 0 ELSE 1)
                     /\ second' = second + (IF isSecond THEN 1 ELSE 0)
           /\ ~(pc = "delete" /\ deleteErr' = "ok") => UNCHANGED <<first, second>>
         ]_vars

\* on a page of posts the first was deleted and the second, created at or
\* after the cutoff, was passed over: the tally is (1, 0)
C14_Witness ==
    /\ platform = "reddit"
    /\ listing = "posts"
    /\ Processed
    /\ i = 2
    /\ item.Created >= cutoffDate
    /\ calls = 0
    /\ skipped = 0
    /\ <<first, second>> = <<1, 0>>

(***************************************************************************)
(* C15: within a pass every item is visited at most once.  The provider    *)
(* hands out with page k of a listing the cursor k; every listing request  *)
(* carries the cursor of the page served last in that listing (none for    *)
(* the first request), also when it is issued again after a Twitter 429;   *)
(* a page is served only to such a request, so no cursor is requested      *)
(* again after its page has been processed; and within a page the range    *)
(* loop only moves forward, one element at a time.                         *)
(***************************************************************************)
C15_EachPageOnce ==
    /\ [](pc \in {"fetch", "fetchWait", "pageDelay"} => After = served)
    /\ [](i <= n)
    /\ [][ /\ served' # served =>
                \/ (pc = "fetch" /\ After = served /\ served' = served + 1
                      /\ i' = 0 /\ After' = After)
                \/ (pc = "break" /\ listing = "posts" /\ listing' = "comments"
                      /\ served' = 0 /\ After' = NoCursor)
           /\ (served' = served /\ listing # "none") =>
                (n' = n /\ i' \in {i, i + 1})
           /\ After' # After =>
                \/ (pc = "item" /\ i = n /\ After' = next /\ After' = served)
                \/ (pc = "break" /\ listing' = "comments")
         ]_vars

\* the second page, requested with the cursor of the first, has been gone
\* through to its end
C15_Witness ==
    /\ served = 2
    /\ After = 1
    /\ Processed
    /\ n = MaxPageLen
    /\ i = n

(***************************************************************************)
(* C16, as stated: the configuration file is read a single time, and every *)
(* provider client is built only from the value that read has loaded.      *)
(***************************************************************************)
C16_SingleRead ==
    /\ configReads <= 1
    /\ built \in {0, 1}

(***************************************************************************)
(* C16, amended: the driver reads the configuration file exactly once, at  *)
(* startup and before any prompt.  The Reddit client is built only from    *)
(* the value of that read, and a Reddit run reads the file no second time. *)
(* Twitter's NewClient gets only the username from that value: once the    *)
(* username is found non-empty it reads the file a second time, and the    *)
(* Twitter client is built from the credentials of that second read.  No   *)
(* other read is made, and none during a pass.                             *)
(***************************************************************************)
C16_ConfigReads ==
    /\ [](pc = "loadConfig" <=> configReads = 0)
    /\ [](platform # "none" => configReads >= 1)
    /\ [](platform # "twitter" => (configReads <= 1 /\ built \in {0, 1}))
    /\ [](platform = "twitter" =>
            /\ configReads \in {1, 2}
            /\ built \in {0, 2}
            /\ (built = 2 => configReads = 2)
            /\ (lookup # "none" => built = 2))
    /\ [](pc \in {"ready", "promptDate", "DeleteContent", "fetch", "item",
                  "delete", "returned"} =>
            built = (IF platform = "twitter" THEN 2 ELSE 1))
    /\ [][ configReads' # configReads =>
             /\ configReads' = configReads + 1
             /\ \/ pc = "loadConfig"
                \/ (pc = "NewClient" /\ platform = "twitter") ]_vars

\* a Twitter client has been created: the file was read twice
C16_Witness ==
    /\ platform = "twitter"
    /\ pc = "ready"
    /\ lookup = "user"
    /\ configReads = 2
    /\ built = 2

C18_AtMostThreeDeleteCalls ==
    /\ [](calls <= 3)
    /\ [](platform = "twitter" /\ pc \in {"delete", "deleteWait"} =>
            /\ retry < 3
            /\ calls = (IF pc = "delete" THEN retry ELSE retry + 1))
    /\ [][ (platform = "twitter" /\ pc = "deleteWait" /\ calls = 3) =>
             /\ pc' = "item"
             /\ i' = i + 1
             /\ UNCHANGED <<first, second, removed, calls, n, next, After, err,
                            ret, exit>> ]_vars
    /\ [][ (platform = "twitter" /\ pc = "delete" /\ calls = 2) =>
             pc' \in {"item", "deleteWait"} ]_vars
    /\ [][ (platform = "twitter" /\ calls' > calls) =>
             (pc = "delete" /\ calls' = calls + 1 /\ item' = item) ]_vars

\* the first tweet of a page was abandoned after three 429s, the pass went
\* on, and the second tweet has been deleted
C18_Witness ==
    /\ platform = "twitter"
    /\ Processed
    /\ i = 2
    /\ skipped = 1
    /\ calls = 1
    /\ deleteErr = "ok"
    /\ retry = 0
    /\ first + second = 1

====
